---- MODULE Spec2Model ----
(***************************************************************************)
(* TIMEPASS_BUDDY: five independent numerical scripts (Gaussian beam       *)
(* fitter, HHI calculator, Macaulay duration, space-charge beam expansion, *)
(* relativistic electron kinematics).                                      *)
(*                                                                         *)
(* Every number the scripts compute is a Python float / numpy float64,     *)
(* that is an IEEE 754 binary64 value.  TLC's integers are 32 bits wide,   *)
(* so a binary64 value is held as sign, significand and binary exponent,   *)
(* the significand a natural number in limbs of 15 bits (little endian),   *)
(* and every arithmetic operation is computed exactly and then rounded to  *)
(* nearest, ties to even, as the hardware does.                            *)
(***************************************************************************)
EXTENDS Integers, Sequences, FiniteSets, TLC

(***************************************************************************)
(* Natural numbers of any size: <<>> is 0, limbs little endian, no leading *)
(* zero limb.                                                              *)
(***************************************************************************)
\* F applied to x: a value worked out once and used under a name.
With(x, F(_)) == F(x)

LimbBits == 15
Base == 2^LimbBits

\* The limbs a function over 1..n gives, as a sequence held element by
\* element.
Limbs(f) == f \o <<>>

\* Limb i of a, zero outside a.
Limb(a, i) == IF i >= 1 /\ i <= Len(a) THEN a[i] ELSE 0

\* a without its leading zero limbs.
NNormLen(a) ==
  CHOOSE k \in 0..Len(a) : (k = 0 \/ a[k] # 0) /\ \A j \in (k + 1)..Len(a) : a[j] = 0

NNorm(a) == IF a = <<>> \/ a[Len(a)] # 0 THEN a ELSE SubSeq(a, 1, NNormLen(a))

RECURSIVE NFromInt(_)
NFromInt(i) == IF i = 0 THEN <<>> ELSE <<i % Base>> \o NFromInt(i \div Base)

RECURSIVE NToInt(_)
NToInt(a) == IF a = <<>> THEN 0 ELSE Head(a) + Base * NToInt(Tail(a))

\* The carry into limb i of a + b: a limb below adds to Base or more and every
\* limb between adds to Base - 1.  The limbs of a and b add to 2 * Base - 2 at
\* most, so a carry is 0 or 1.
NAddCarry(a, b, i) ==
  IF \E d \in 1..(i - 1) :
        /\ Limb(a, i - d) + Limb(b, i - d) >= Base
        /\ \A k \in (i - d + 1)..(i - 1) : Limb(a, k) + Limb(b, k) = Base - 1
  THEN 1 ELSE 0

NAddLen(a, b) == (IF Len(a) > Len(b) THEN Len(a) ELSE Len(b)) + 1

\* a + b for limbs that add to 2 * Base - 2 at most, place by place.
NAddLimbs(a, b) ==
  NNorm(Limbs([i \in 1..NAddLen(a, b) |->
                 (Limb(a, i) + Limb(b, i) + NAddCarry(a, b, i)) % Base]))

NAdd(a, b) ==
  IF b = <<>> THEN a
  ELSE IF a = <<>> THEN b
  ELSE NAddLimbs(a, b)

\* The borrow from limb i of a - b: a limb below is short and every limb
\* between is level.
NSubBorrow(a, b, i) ==
  IF \E d \in 1..(i - 1) :
        /\ Limb(a, i - d) < Limb(b, i - d)
        /\ \A k \in (i - d + 1)..(i - 1) : Limb(a, k) = Limb(b, k)
  THEN 1 ELSE 0

\* a - b, for a >= b.
NSub(a, b) ==
  IF b = <<>> THEN a
  ELSE NNorm(Limbs([i \in 1..Len(a) |->
                      (Limb(a, i) - Limb(b, i) - NSubBorrow(a, b, i) + Base) % Base]))

\* The highest limb in which a and b of one length differ.
NTopDiff(a, b) ==
  CHOOSE i \in 1..Len(a) : a[i] # b[i] /\ \A j \in (i + 1)..Len(a) : a[j] = b[j]

\* -1, 0, 1 as a is below, equal to, above b.
NCmp(a, b) ==
  IF Len(a) < Len(b) THEN -1
  ELSE IF Len(a) > Len(b) THEN 1
  ELSE IF a = b THEN 0
  ELSE IF a[NTopDiff(a, b)] < b[NTopDiff(a, b)] THEN -1
  ELSE 1

\* a * m + c for one limb m and c below Base: the low halves of the limb
\* products, c joining the lowest, plus their high halves one limb up.
NMulSmall(a, m, c) ==
  IF a = <<>> THEN (IF c = 0 THEN <<>> ELSE <<c>>)
  ELSE NAddLimbs(
         Limbs([i \in 1..Len(a) |-> ((a[i] * m) % Base) + (IF i = 1 THEN c ELSE 0)]),
         Limbs([i \in 1..(Len(a) + 1) |-> IF i = 1 THEN 0 ELSE (a[i - 1] * m) \div Base]))

\* a * Base^n
NShiftLimbs(a, n) ==
  IF a = <<>> \/ n = 0 THEN a ELSE [i \in 1..n |-> 0] \o a

\* Column k of a * b: the low halves (part 0) or the high halves (part 1) of
\* the products a[i] * b[k + 1 - i], i from lo to hi, added up.
RECURSIVE NColumn(_, _, _, _, _, _)
NColumn(a, b, k, part, lo, hi) ==
  IF lo > hi THEN 0
  ELSE IF lo = hi
  THEN (IF part = 0 THEN (a[lo] * b[k + 1 - lo]) % Base ELSE (a[lo] * b[k + 1 - lo]) \div Base)
  ELSE NColumn(a, b, k, part, lo, (lo + hi) \div 2)
       + NColumn(a, b, k, part, ((lo + hi) \div 2) + 1, hi)

\* What column k holds before carries: its low halves and the high halves of
\* the column below.
NColumnTotal(a, b, k) ==
  NColumn(a, b, k, 0, IF k > Len(b) THEN k + 1 - Len(b) ELSE 1,
          IF k < Len(a) THEN k ELSE Len(a))
  + NColumn(a, b, k - 1, 1, IF k - 1 > Len(b) THEN k - Len(b) ELSE 1,
            IF k - 1 < Len(a) THEN k - 1 ELSE Len(a))

NMul(a, b) ==
  IF a = <<>> \/ b = <<>> THEN <<>>
  ELSE NAddLimbs(
         Limbs([k \in 1..(Len(a) + Len(b)) |-> NColumnTotal(a, b, k) % Base]),
         Limbs([k \in 1..(Len(a) + Len(b) + 1) |->
                  IF k = 1 THEN 0 ELSE NColumnTotal(a, b, k - 1) \div Base]))

NSquare(h) == NMul(h, h)

NPowStep(a, n, sq) == IF n % 2 = 0 THEN sq ELSE NMul(a, sq)

RECURSIVE NPow(_, _)
NPow(a, n) ==
  IF n = 0 THEN <<1>> ELSE NPowStep(a, n, NSquare(NPow(a, n \div 2)))

\* a * 2^k
NShl(a, k) == NShiftLimbs(NMulSmall(a, 2^(k % LimbBits), 0), k \div LimbBits)

\* The limbs hi, each moved down r bits (r below LimbBits), the low bits of
\* the next limb coming in at the top.
NShrLimbs(hi, r) ==
  NNorm(Limbs([i \in 1..Len(hi) |->
                 (hi[i] \div (2^r)) + (Limb(hi, i + 1) % (2^r)) * (2^(LimbBits - r))]))

\* floor(a / 2^k)
NShr(a, k) ==
  IF k \div LimbBits >= Len(a) THEN <<>>
  ELSE NShrLimbs(SubSeq(a, (k \div LimbBits) + 1, Len(a)), k % LimbBits)

\* The number of bits of x, for x below 2^30.
SmallBitLen(x) ==
  CHOOSE k \in 0..30 : x < 2^k /\ (k = 0 \/ x >= 2^(k - 1))

NBitLen(a) ==
  IF a = <<>> THEN 0 ELSE LimbBits * (Len(a) - 1) + SmallBitLen(a[Len(a)])

\* bit i of a (bit 0 the lowest)
NBit(a, i) ==
  IF i \div LimbBits >= Len(a) THEN 0
  ELSE (a[(i \div LimbBits) + 1] \div (2^(i % LimbBits))) % 2

\* a mod 2^k = 0
NLowZero(a, k) ==
  /\ \A i \in 1..(k \div LimbBits) : i > Len(a) \/ a[i] = 0
  /\ \/ (k \div LimbBits) + 1 > Len(a)
     \/ a[(k \div LimbBits) + 1] % (2^(k % LimbBits)) = 0

NIsOdd(a) == a # <<>> /\ a[1] % 2 = 1

\* est, lowered until est * d <= r (at most twice).
NDigitFit(r, d, est) ==
  IF NCmp(NMulSmall(d, est, 0), r) <= 0 THEN est
  ELSE IF NCmp(NMulSmall(d, est - 1, 0), r) <= 0 THEN est - 1
  ELSE est - 2

NDigitCap(raw) == IF raw > Base - 1 THEN Base - 1 ELSE raw

\* The largest one-limb q with q * d <= r, for r below d * Base and d with its
\* top bit set in its top limb: the two top limbs of r over the top limb of d
\* overestimate q by at most 2.
NDigit(r, d) ==
  NDigitFit(r, d, NDigitCap((Limb(r, Len(d) + 1) * Base + Limb(r, Len(d))) \div d[Len(d)]))

\* Long division, one quotient limb a step, from limb i of n down to limb 1,
\* q the quotient limbs found and r what is left of the limbs above:
\* <<quotient limbs, remainder>>.  NDivTake has limb i brought down to r
\* and the quotient limb dg it gives.
RECURSIVE NDivLimbs(_, _, _, _, _)
RECURSIVE NDivTake(_, _, _, _, _, _)
NDivTake(n, d, i, q, r1, dg) ==
  IF dg = 0 THEN NDivLimbs(n, d, i - 1, <<0>> \o q, r1)
  ELSE NDivLimbs(n, d, i - 1, <<dg>> \o q, NSub(r1, NMulSmall(d, dg, 0)))

NDivLimbs(n, d, i, q, r) ==
  IF i = 0 THEN <<q, r>>
  ELSE NDivTake(n, d, i, q, NNorm(<<n[i]>> \o r), NDigit(NNorm(<<n[i]>> \o r), d))

\* The bits to move d up by so that its top limb has its top bit set.
NDivShift(d) == LimbBits - SmallBitLen(d[Len(d)])

NDivOut(qr, sh) == <<NNorm(qr[1]), NShr(qr[2], sh)>>

\* nn / dd, both scaled by 2^sh: the top limbs of nn, one fewer than dd has,
\* are below dd and start as the remainder.
NDivScaled(nn, dd, sh) ==
  IF Len(nn) < Len(dd) THEN <<(<<>>), NShr(nn, sh)>>
  ELSE NDivOut(NDivLimbs(nn, dd, Len(nn) - Len(dd) + 1, <<>>,
                         SubSeq(nn, Len(nn) - Len(dd) + 2, Len(nn))), sh)

\* <<floor(n / d), n mod d>> for d > 0.
NDivMod(n, d) == NDivScaled(NShl(n, NDivShift(d)), NShl(d, NDivShift(d)), NDivShift(d))

\* floor(sqrt(t)) for 0 < t < 2^30 by Newton's iteration from x >= sqrt(t).
RECURSIVE SmallSqrtNewton(_, _)
SmallSqrtNewton(t, x) ==
  IF (x + t \div x) \div 2 >= x THEN x
  ELSE SmallSqrtNewton(t, (x + t \div x) \div 2)

\* An even number of low bits of n to leave out so that 30 bits or fewer stay.
NSqrtShift(n) ==
  IF NBitLen(n) <= 30 THEN 0 ELSE 2 * ((NBitLen(n) - 29) \div 2)

\* A first guess above sqrt(n): one more than the root of the top bits.
NSqrtGuess(n, s) ==
  NShl(NFromInt(SmallSqrtNewton(NToInt(NShr(n, s)), Base) + 1), s \div 2)

\* floor(sqrt(n)) by Newton's iteration from x >= sqrt(n): the next iterate
\* is the mean of x and q = floor(n / x), and the iterates fall until the
\* root is reached, which is when q is x or more.
RECURSIVE NSqrtNewton(_, _)
RECURSIVE NSqrtNext(_, _, _)
NSqrtNext(n, x, q) ==
  IF NCmp(q, x) >= 0 THEN x ELSE NSqrtNewton(n, NShr(NAdd(x, q), 1))

NSqrtNewton(n, x) == NSqrtNext(n, x, NDivMod(n, x)[1])

NSqrt(n) ==
  IF n = <<>> THEN <<>> ELSE NSqrtNewton(n, NSqrtGuess(n, NSqrtShift(n)))

\* The number below 10^4 written with the decimal digits ds.
RECURSIVE SmallFromDigits(_)
SmallFromDigits(ds) ==
  IF ds = <<>> THEN 0
  ELSE 10 * SmallFromDigits(SubSeq(ds, 1, Len(ds) - 1)) + ds[Len(ds)]

\* The natural number written with the decimal digits ds (most significant
\* first), four digits a step.
RECURSIVE NFromDigits(_)
NFromDigits(ds) ==
  IF Len(ds) <= 4 THEN NFromInt(SmallFromDigits(ds))
  ELSE NMulSmall(NFromDigits(SubSeq(ds, 1, Len(ds) - 4)), 10000,
                 SmallFromDigits(SubSeq(ds, Len(ds) - 3, Len(ds))))

(***************************************************************************)
(* IEEE 754 binary64.  A value is [cls, sgn, man, exp]: cls "fin" is       *)
(* (-1)^sgn * man * 2^exp with man below 2^53 and exp at least -1074, man  *)
(* at least 2^52 unless exp = -1074 (subnormal) and zero is man = <<>>     *)
(* at exp -1074; "inf" and "nan" are the two special classes.              *)
(***************************************************************************)
PrecBits == 53
MinExp == -1074
MaxExp == 971

FZero(s) == [cls |-> "fin", sgn |-> s, man |-> <<>>, exp |-> MinExp]
FInf(s) == [cls |-> "inf", sgn |-> s, man |-> <<>>, exp |-> 0]
FNaN == [cls |-> "nan", sgn |-> 0, man |-> <<>>, exp |-> 0]

IsNaN(x) == x.cls = "nan"
IsInf(x) == x.cls = "inf"
IsFin(x) == x.cls = "fin"
IsZero(x) == x.cls = "fin" /\ x.man = <<>>

\* (-1)^s * man2 * 2^exp2 as a binary64: past the largest exponent it is inf.
RoundFin(s, man2, exp2) ==
  IF exp2 > MaxExp THEN FInf(s)
  ELSE IF man2 = <<>> THEN FZero(s)
  ELSE [cls |-> "fin", sgn |-> s, man |-> man2, exp |-> exp2]

\* A rounded significand r at exponent qe: rounding up may have carried it to
\* one bit more than a significand holds.
RoundPack(s, r, qe) ==
  IF NBitLen(r) > PrecBits THEN RoundFin(s, NShr(r, 1), qe + 1)
  ELSE RoundFin(s, r, qe)

\* keep = floor(m / 2^sh) rounded to nearest on the sh bits dropped: up when
\* the first of them is set and either more are set or keep is odd.
RoundKeep(m, sh, keep) ==
  IF NBit(m, sh - 1) = 1 /\ (~NLowZero(m, sh - 1) \/ NIsOdd(keep))
  THEN NAdd(keep, <<1>>) ELSE keep

\* The exponent of the last significand bit of a value whose first bit has
\* exponent top: 52 places below, but never below the subnormal exponent.
QuantumExp(top) ==
  IF top - (PrecBits - 1) < MinExp THEN MinExp ELSE top - (PrecBits - 1)

RoundAt(s, m, e, qe) ==
  IF qe <= e THEN RoundPack(s, NShl(m, e - qe), qe)
  ELSE RoundPack(s, RoundKeep(m, qe - e, NShr(m, qe - e)), qe)

\* The binary64 nearest to (-1)^s * m * 2^e, ties to even; overflow gives inf.
RoundBits(s, m, e) ==
  IF m = <<>> THEN FZero(s)
  ELSE RoundAt(s, m, e, QuantumExp(e + NBitLen(m) - 1))

\* The binary64 nearest to (-1)^s * (q + f) * 2^(e + 1) for the quotient q
\* and remainder of qr, f the fraction the remainder stands for: q gets one
\* more bit below it, set when anything is left of the division.
RoundQuotOf(s, qr, e) ==
  IF qr[2] = <<>> THEN RoundBits(s, NMulSmall(qr[1], 2, 0), e)
  ELSE RoundBits(s, NMulSmall(qr[1], 2, 1), e)

\* The bits to move n up by so that n / d has 56 bits or more.
QuotShift(n, d) ==
  IF NBitLen(d) + PrecBits + 3 > NBitLen(n) THEN NBitLen(d) + PrecBits + 3 - NBitLen(n) ELSE 0

\* The binary64 nearest to (-1)^s * (n / d) * 2^e, for d > 0: the quotient is
\* taken to 56 bits or more and what is left of the division kept as one
\* sticky bit below them.
RoundQuot(s, n, d, e) ==
  IF n = <<>> THEN FZero(s)
  ELSE RoundQuotOf(s, NDivMod(NShl(n, QuotShift(n, d)), d), e - QuotShift(n, d) - 1)

\* The binary64 nearest to sqrt(n) * 2^(e + 1) for root = floor(sqrt(n)): one
\* more bit below the root, set unless the root is exact.
RoundRootOf(n, root, e) ==
  IF NMul(root, root) = n THEN RoundBits(0, NMulSmall(root, 2, 0), e)
  ELSE RoundBits(0, NMulSmall(root, 2, 1), e)

\* The bits to move m up by so that its root has 56 bits or more and the
\* exponent left is even.
RootShift(m, e) ==
  With(IF 2 * (PrecBits + 3) > NBitLen(m) THEN 2 * (PrecBits + 3) - NBitLen(m) ELSE 0,
       LAMBDA s0 : IF (e - s0) % 2 = 0 THEN s0 ELSE s0 + 1)

RoundRoot(n, e) == RoundRootOf(n, NSqrt(n), e)

\* The binary64 nearest to sqrt(m * 2^e), the root taken to 56 bits or more.
RoundSqrt(m, e) ==
  IF m = <<>> THEN FZero(0)
  ELSE RoundRoot(NShl(m, RootShift(m, e)), ((e - RootShift(m, e)) \div 2) - 1)

\* Literals: an integer, and a decimal literal digits * 10^e10 (what float()
\* and the compiler do with "1.602176634e-19": the nearest binary64).
FromNat(n) == RoundBits(0, n, 0)
FromInt(i) == IF i < 0 THEN RoundBits(1, NFromInt(-i), 0) ELSE RoundBits(0, NFromInt(i), 0)
Dec(ds, e10) ==
  IF e10 >= 0 THEN RoundBits(0, NMul(NFromDigits(ds), NPow(<<10>>, e10)), 0)
  ELSE RoundQuot(0, NFromDigits(ds), NPow(<<10>>, -e10), 0)

FNeg(x) == IF IsNaN(x) THEN x ELSE [x EXCEPT !.sgn = 1 - x.sgn]
FAbs(x) == IF IsNaN(x) THEN x ELSE [x EXCEPT !.sgn = 0]

\* -1, 0, 1 for two values that are not nan (and -0 equal to +0).
FCmpMag(x, y) ==
  IF IsInf(x) THEN (IF IsInf(y) THEN 0 ELSE 1)
  ELSE IF IsInf(y) THEN -1
  ELSE IF x.man = <<>> THEN (IF y.man = <<>> THEN 0 ELSE -1)
  ELSE IF y.man = <<>> THEN 1
  ELSE LET tx == x.exp + NBitLen(x.man)
           ty == y.exp + NBitLen(y.man)
       IN  IF tx < ty THEN -1
           ELSE IF tx > ty THEN 1
           ELSE IF x.exp >= y.exp THEN NCmp(NShl(x.man, x.exp - y.exp), y.man)
           ELSE NCmp(x.man, NShl(y.man, y.exp - x.exp))

FCmp(x, y) ==
  IF IsZero(x) /\ IsZero(y) THEN 0
  ELSE IF x.sgn # y.sgn THEN (IF x.sgn = 1 THEN -1 ELSE 1)
  ELSE IF x.sgn = 0 THEN FCmpMag(x, y)
  ELSE -FCmpMag(x, y)

\* Python's ==, <, <=: false whenever a nan is involved.
FEq(x, y) == ~IsNaN(x) /\ ~IsNaN(y) /\ FCmp(x, y) = 0
FLt(x, y) == ~IsNaN(x) /\ ~IsNaN(y) /\ FCmp(x, y) < 0
FLe(x, y) == ~IsNaN(x) /\ ~IsNaN(y) /\ FCmp(x, y) <= 0

FMul(x, y) ==
  IF IsNaN(x) \/ IsNaN(y) THEN FNaN
  ELSE LET s == (x.sgn + y.sgn) % 2
       IN  IF IsInf(x) \/ IsInf(y)
           THEN (IF IsZero(x) \/ IsZero(y) THEN FNaN ELSE FInf(s))
           ELSE RoundBits(s, NMul(x.man, y.man), x.exp + y.exp)

\* Two finite values of which x has the larger exponent.  Past a gap of 64
\* binary places y only decides the rounding: it is kept as one sticky bit.
FAddOrdered(x, y) ==
  IF y.man = <<>> THEN x
  ELSE IF x.exp - y.exp > 64
  THEN With(NShl(x.man, 4), LAMBDA m16 :
         RoundBits(x.sgn, IF x.sgn = y.sgn THEN NAdd(m16, <<1>>) ELSE NSub(m16, <<1>>),
                   x.exp - 4))
  ELSE With(NShl(x.man, x.exp - y.exp), LAMBDA mx :
       With(NCmp(mx, y.man), LAMBDA c :
         IF x.sgn = y.sgn THEN RoundBits(x.sgn, NAdd(mx, y.man), y.exp)
         ELSE IF c = 0 THEN FZero(0)
         ELSE IF c > 0 THEN RoundBits(x.sgn, NSub(mx, y.man), y.exp)
         ELSE RoundBits(y.sgn, NSub(y.man, mx), y.exp)))

FAdd(x, y) ==
  IF IsNaN(x) \/ IsNaN(y) THEN FNaN
  ELSE IF IsInf(x) THEN (IF IsInf(y) /\ x.sgn # y.sgn THEN FNaN ELSE x)
  ELSE IF IsInf(y) THEN y
  ELSE IF x.man = <<>> /\ y.man = <<>>
  THEN FZero(IF x.sgn = 1 /\ y.sgn = 1 THEN 1 ELSE 0)
  ELSE IF x.man = <<>> THEN y
  ELSE With(x.exp >= y.exp, LAMBDA xfirst :
         FAddOrdered(IF xfirst THEN x ELSE y, IF xfirst THEN y ELSE x))

FSub(x, y) == FAdd(x, FNeg(y))

\* IEEE division, as numpy's float64 divides: x/0 is inf (nan for 0/0).
FDiv(x, y) ==
  IF IsNaN(x) \/ IsNaN(y) THEN FNaN
  ELSE LET s == (x.sgn + y.sgn) % 2
       IN  IF IsInf(x) THEN (IF IsInf(y) THEN FNaN ELSE FInf(s))
           ELSE IF IsInf(y) THEN FZero(s)
           ELSE IF y.man = <<>> THEN (IF x.man = <<>> THEN FNaN ELSE FInf(s))
           ELSE RoundQuot(s, x.man, y.man, x.exp - y.exp)

\* numpy.sqrt: nan below zero.
FSqrt(x) ==
  IF IsNaN(x) THEN FNaN
  ELSE IF IsZero(x) THEN x
  ELSE IF x.sgn = 1 THEN FNaN
  ELSE IF IsInf(x) THEN x
  ELSE RoundSqrt(x.man, x.exp)

\* The binary64 nearest to x^n for a whole n >= 0: the exact power rounded
\* once.
NearestPowNat(x, n) ==
  IF n = 0 THEN FromInt(1)
  ELSE IF IsNaN(x) THEN FNaN
  ELSE LET s == IF n % 2 = 1 THEN x.sgn ELSE 0
       IN  IF IsInf(x) THEN FInf(s)
           ELSE RoundBits(s, NPow(x.man, n), n * x.exp)

\* The binary64 nearest to x^(h/2) for a whole h >= 0 and x >= 0: the root of
\* the exact power, rounded once.
NearestPowHalves(x, h) ==
  IF h % 2 = 0 THEN NearestPowNat(x, h \div 2)
  ELSE IF IsNaN(x) THEN FNaN
  ELSE IF IsInf(x) THEN x
  ELSE RoundSqrt(NPow(x.man, h), h * x.exp)

\* The whole number a binary64 value holds, for a value that is whole and
\* not negative.
WholeOf(x) ==
  IF x.man = <<>> THEN 0
  ELSE IF x.exp >= 0 THEN NToInt(NShl(x.man, x.exp))
  ELSE NToInt(NShr(x.man, -x.exp))

\* float.is_integer(): finite with no fraction bits set.
IsWhole(x) ==
  /\ IsFin(x)
  /\ \/ x.man = <<>>
     \/ x.exp >= 0
     \/ (x.exp >= -(PrecBits - 1) /\ NLowZero(x.man, -x.exp))

\* -1, 0, 1 as a * 2^ea is below, equal to, above b * 2^eb.
CmpScaled(a, ea, b, eb) ==
  IF ea >= eb THEN NCmp(NShl(a, ea - eb), b) ELSE NCmp(a, NShl(b, eb - ea))

\* The largest finite binary64, and the binary64 next to a finite r away
\* from zero and towards zero.
FMax(s) ==
  [cls |-> "fin", sgn |-> s, man |-> NSub(NShl(<<1>>, PrecBits), <<1>>), exp |-> MaxExp]
FStepUp(r) == RoundPack(r.sgn, NAdd(r.man, <<1>>), r.exp)
FStepDown(r) ==
  IF r.exp > MinExp /\ r.man = NShl(<<1>>, PrecBits - 1)
  THEN RoundFin(r.sgn, NSub(NShl(r.man, 1), <<1>>), r.exp - 1)
  ELSE RoundFin(r.sgn, NSub(r.man, <<1>>), r.exp)

\* pow of the C library is not correctly rounded: it returns one of the two
\* binary64 values the exact result lies between (the result itself when it
\* is a binary64), and which of the two is the library's choice.  near is the
\* nearest binary64, c the sign of |near| - |exact|, and below says that
\* |exact| is under 2^1024, where a result rounded up to inf may also come
\* out as the largest finite value.
PowOutcomes(near, c, below) ==
  IF IsInf(near) THEN (IF below THEN {near, FMax(near.sgn)} ELSE {near})
  ELSE IF c = 0 THEN {near}
  ELSE IF c > 0 THEN {FStepDown(near), near}
  ELSE {near, FStepUp(near)}

\* pow(x, n) for a whole n >= 0, as a set of values.
PowNatOf(near, m, e) ==
  PowOutcomes(near,
              IF IsInf(near) THEN 0 ELSE CmpScaled(near.man, near.exp, m, e),
              NBitLen(m) + e <= MaxExp + PrecBits)
PowNat(x, n) ==
  IF n = 0 \/ ~IsFin(x) \/ IsZero(x) THEN {NearestPowNat(x, n)}
  ELSE PowNatOf(NearestPowNat(x, n), NPow(x.man, n), n * x.exp)

\* pow(x, h/2) for an odd h and x > 0: the outcomes are compared with the
\* exact root by their squares.
PowRootOf(near, m, e) ==
  PowOutcomes(near,
              IF IsInf(near) THEN 0
              ELSE CmpScaled(NMul(near.man, near.man), 2 * near.exp, m, e),
              NBitLen(m) + e <= 2 * (MaxExp + PrecBits))
PowHalves(x, h) ==
  IF h % 2 = 0 THEN PowNat(x, h \div 2)
  ELSE IF ~IsFin(x) \/ IsZero(x) THEN {NearestPowHalves(x, h)}
  ELSE PowRootOf(NearestPowHalves(x, h), NPow(x.man, h), h * x.exp)

\* The binary64 nearest to 1 / x^n for a whole n > 0: the exact quotient
\* rounded once (a zero x gives the inf the library returns).
NearestPowNeg(x, n) ==
  IF IsNaN(x) THEN FNaN
  ELSE LET s == IF n % 2 = 1 THEN x.sgn ELSE 0
       IN  IF IsInf(x) THEN FZero(s)
           ELSE IF IsZero(x) THEN FInf(s)
           ELSE RoundQuot(s, <<1>>, NPow(x.man, n), -(n * x.exp))

\* pow(x, -n) for a whole n > 0: the outcomes are compared with the exact
\* 1 / (m * 2^e) by their products with m * 2^e.
PowNegOf(near, m, e) ==
  PowOutcomes(near,
              IF IsInf(near) THEN 0
              ELSE CmpScaled(NMul(near.man, m), near.exp + e, <<1>>, 0),
              CmpScaled(m, e, <<1>>, -(MaxExp + PrecBits)) > 0)
PowNeg(x, n) ==
  IF ~IsFin(x) \/ IsZero(x) THEN {NearestPowNeg(x, n)}
  ELSE PowNegOf(NearestPowNeg(x, n), NPow(x.man, n), n * x.exp)

\* x ** y of two Python floats, the set of values it may give, for the
\* exponents that are whole, or a whole number and a half above zero with a
\* base that is not negative; no other exponent has a value here.
PowDefined(x, y) ==
  /\ IsFin(y)
  /\ IsWhole(FMul(FromInt(2), y))
  /\ (IsWhole(y) \/ (y.sgn = 0 /\ (IsNaN(x) \/ x.sgn = 0 \/ IsZero(x))))
FloatPow(x, y) ==
  IF ~PowDefined(x, y) THEN {}
  ELSE IF y.sgn = 1 /\ ~IsZero(y) THEN PowNeg(x, WholeOf(FNeg(y)))
  ELSE PowHalves(x, WholeOf(FMul(FromInt(2), y)))

\* Python's float ** raises ZeroDivisionError for a zero base and a negative
\* exponent, before the library is called.
PowZeroDivides(x, y) == IsZero(x) /\ IsFin(y) /\ y.sgn = 1 /\ ~IsZero(y)

\* Python's float ** raises OverflowError when the power r of a finite base
\* is infinite.
PowOverflows(x, r) == IsFin(x) /\ IsInf(r)

\* |x - y| <= tol * |y|, in binary64 arithmetic as a test would compute it.
RelClose(x, y, tol) == FLe(FAbs(FSub(x, y)), FMul(tol, FAbs(y)))

\* format(x, ".<nd>f"): |x| * 10^nd rounded to a whole number, ties to even
\* on the exact binary value, with the sign: [neg, units], units a natural
\* number in limbs.
FormatFixed(x, nd) ==
  IF ~IsFin(x) THEN [neg |-> x.sgn = 1, units |-> <<>>, text |-> x.cls]
  ELSE
    With(NMul(x.man, NPow(<<10>>, nd)), LAMBDA n :
    With(-x.exp, LAMBDA sh :
    With(IF sh <= 0 THEN NShl(n, -sh) ELSE NShr(n, sh), LAMBDA keep :
      [neg |-> x.sgn = 1,
       units |-> IF /\ sh > 0
                    /\ NBit(n, sh - 1) = 1
                    /\ (~NLowZero(n, sh - 1) \/ NIsOdd(keep))
                 THEN NAdd(keep, <<1>>) ELSE keep,
       text |-> "f"])))

(***************************************************************************)
(* The state of a running script: where it is, the names it has bound      *)
(* (arguments, locals, module-level names), what the call in progress      *)
(* returned or raised, and the lines it has printed.                       *)
(***************************************************************************)
VARIABLES pc, env, ret, exc, out
vars == <<pc, env, ret, exc, out>>

\* A name not bound yet, a call that has not returned, no exception.
Unset == [cls |-> "unset", sgn |-> 0, man |-> <<>>, exp |-> 0]
NoExc == [type |-> "none", msg |-> ""]

F0 == FromInt(0)
F1 == FromInt(1)

\* numpy.sum over fewer than 8 float64: the additions in order, from 0.0.
RECURSIVE NpSum(_)
NpSum(xs) ==
  IF xs = <<>> THEN F0 ELSE FAdd(NpSum(SubSeq(xs, 1, Len(xs) - 1)), xs[Len(xs)])

\* Elementwise operations of numpy arrays, as sequences.
RECURSIVE SeqMap2Mul(_, _)
SeqMap2Mul(xs, ys) ==
  IF xs = <<>> THEN <<>>
  ELSE <<FMul(Head(xs), Head(ys))>> \o SeqMap2Mul(Tail(xs), Tail(ys))

\* A printed line: its text (the format string) and the formatted number in it.
NoValue == [neg |-> FALSE, units |-> <<>>, text |-> ""]
Line(t) == [text |-> t, value |-> NoValue]
LineF(t, x, nd) == [text |-> t, value |-> FormatFixed(x, nd)]

\* All sequences over S of length at most n.
RECURSIVE SeqsUpTo(_, _)
SeqsUpTo(S, n) ==
  IF n = 0 THEN {<<>>}
  ELSE LET shorter == SeqsUpTo(S, n - 1)
       IN  shorter \cup {Append(q, x) : q \in {r \in shorter : Len(r) = n - 1}, x \in S}

(***************************************************************************)
(* src/MacD.py: macaulay_duration and its example driver.                  *)
(***************************************************************************)
MaxFlows == 3

CASH_FLOWS == <<FromInt(80), FromInt(80), FromInt(1080)>>
TIMES == <<FromInt(1), FromInt(2), FromInt(3)>>
YTM == Dec(<<1, 0>>, -2)

LengthMessage == "The 'cash_flows' and 'times' arrays must have the same length."

\* line 27: len(cash_flows) != len(times)
LengthsDifferMutant(cfs, ts) == Len(cfs) > Len(ts)
LengthsDiffer(cfs, ts) == Len(cfs) # Len(ts)

\* (1 + ytm) ** t: the values the power may take.
DiscountMutant(ytm, t) == {FAdd(F1, ytm)}
Discount(ytm, t) == FloatPow(FAdd(F1, ytm), t)

\* pv = cf / ((1 + ytm) ** t), for the value d the power took: the power
\* raises ZeroDivisionError for a zero base and a negative t and
\* OverflowError when it overflows, and Python's float division raises
\* ZeroDivisionError on a zero divisor.
PresentValueRaises(ytm, t, d) ==
  \/ PowZeroDivides(FAdd(F1, ytm), t)
  \/ PowOverflows(FAdd(F1, ytm), d)
  \/ IsZero(d)
PresentValueError(ytm, t, d) ==
  IF PowZeroDivides(FAdd(F1, ytm), t)
  THEN [type |-> "ZeroDivisionError", msg |-> "0.0 cannot be raised to a negative power"]
  ELSE IF PowOverflows(FAdd(F1, ytm), d)
  THEN [type |-> "OverflowError", msg |-> "(34, 'Numerical result out of range')"]
  ELSE [type |-> "ZeroDivisionError", msg |-> "float division by zero"]
PresentValueMutant(cf, d) == FDiv(FAdd(cf, F1), d)
PresentValue(cf, d) == FDiv(cf, d)

\* The inputs the function is called with.  Cash flows: the driver's own
\* schedule, every bond of at most MaxFlows payments (equal coupons, then a
\* last payment) over amounts that are zero, small, near the largest float
\* (1e308) and the smallest (5e-324, a subnormal), and the tenths 0.1, 0.2,
\* 0.3, ... whose sums round.  Times: yearly, half-yearly, and lists with
\* equal and negative times (1, 1, -1, ...).  Yields: the driver's, 0, -100%
\* (a zero discount factor) and one whose powers from 1.5 up are beyond the
\* largest float.
NearLargest == Dec(<<1>>, 308)
Subnormal == Dec(<<5>>, -324)
CashAmounts == {FromInt(0), FromInt(1), FromInt(3), NearLargest, Subnormal}
RECURSIVE Coupons(_, _)
Coupons(a, n) == IF n = 0 THEN <<>> ELSE Append(Coupons(a, n - 1), a)
Bond(a, b, n) == IF n = 0 THEN <<>> ELSE Append(Coupons(a, n - 1), b)
RECURSIVE Tenths(_)
Tenths(n) == IF n = 0 THEN <<>> ELSE Append(Tenths(n - 1), Dec(<<n>>, -1))
CashFlowLists ==
  {CASH_FLOWS}
    \cup {Bond(a, b, m) : a \in CashAmounts, b \in CashAmounts, m \in 0..MaxFlows}
    \cup {Tenths(m) : m \in 1..MaxFlows}
RECURSIVE Every(_, _)
Every(step, n) ==
  IF n = 0 THEN <<>> ELSE Append(Every(step, n - 1), FMul(FromInt(n), step))
RECURSIVE MixedTimes(_)
MixedTimes(n) ==
  IF n = 0 THEN <<>>
  ELSE Append(MixedTimes(n - 1), IF n % 3 = 0 THEN FromInt(-1) ELSE F1)
TimesLists ==
  {Every(F1, m) : m \in 0..MaxFlows}
    \cup {Every(Dec(<<5>>, -1), m) : m \in 1..MaxFlows}
    \cup {MixedTimes(m) : m \in 1..MaxFlows}
Yields == {YTM, F0, FromInt(-1), Dec(<<1>>, 250)}

InitMacD ==
  /\ pc = "main"
  /\ \E cf \in CashFlowLists, ts \in TimesLists, y \in Yields :
       env = [cash_flows |-> cf, times |-> ts, ytm |-> y,
              discounts |-> <<>>, present_values |-> <<>>,
              total_present_value |-> Unset,
              sum_weighted_pv |-> Unset, duration |-> Unset]
  /\ ret = Unset
  /\ exc = NoExc
  /\ out = <<>>

\* line 80: the driver calls macaulay_duration inside its try block.
MainCall ==
  /\ pc = "main"
  /\ pc' = "md_check"
  /\ UNCHANGED <<env, ret, exc, out>>

\* lines 27-29: the length check, before anything is computed.
CheckLengths ==
  /\ pc = "md_check"
  /\ IF LengthsDiffer(env.cash_flows, env.times)
     THEN /\ exc' = [type |-> "ValueError", msg |-> LengthMessage]
          /\ pc' = "main_except"
     ELSE /\ exc' = exc
          /\ pc' = "md_pv"
  /\ UNCHANGED <<env, ret, out>>

\* lines 34-36: one turn of the loop over zip(cash_flows, times); discounts
\* keeps the value each power took.
PresentValueStep ==
  /\ pc = "md_pv"
  /\ Len(env.present_values) < Len(env.cash_flows)
  /\ \E d \in Discount(env.ytm, env.times[Len(env.present_values) + 1]) :
       IF PresentValueRaises(env.ytm, env.times[Len(env.present_values) + 1], d)
       THEN /\ exc' = PresentValueError(env.ytm, env.times[Len(env.present_values) + 1], d)
            /\ pc' = "main_except"
            /\ env' = env
       ELSE /\ env' = [env EXCEPT
                         !.discounts = Append(@, d),
                         !.present_values =
                           Append(@, PresentValue(env.cash_flows[Len(env.present_values) + 1], d))]
            /\ pc' = pc
            /\ exc' = exc
  /\ UNCHANGED <<ret, out>>

\* lines 39-44: the loop is over; the arrays are built and the total summed.
TotalPresentValue ==
  /\ pc = "md_pv"
  /\ Len(env.present_values) = Len(env.cash_flows)
  /\ env' = [env EXCEPT !.total_present_value = NpSum(env.present_values)]
  /\ pc' = "md_guard"
  /\ UNCHANGED <<ret, exc, out>>

\* lines 47-48: a zero total returns 0.0.
ZeroGuard ==
  /\ pc = "md_guard"
  /\ IF FEq(env.total_present_value, F0)
     THEN /\ ret' = F0
          /\ env' = [env EXCEPT !.duration = F0]
          /\ pc' = "main_print"
     ELSE /\ ret' = ret
          /\ env' = env
          /\ pc' = "md_weighted"
  /\ UNCHANGED <<exc, out>>

\* lines 52-56: the weighted components and their sum.
WeightedSum ==
  /\ pc = "md_weighted"
  /\ env' = [env EXCEPT !.sum_weighted_pv =
               NpSum(SeqMap2Mul(env.times, env.present_values))]
  /\ pc' = "md_divide"
  /\ UNCHANGED <<ret, exc, out>>

\* lines 60-62 and 80: the quotient is returned and bound to duration.
Divide ==
  /\ pc = "md_divide"
  /\ ret' = FDiv(env.sum_weighted_pv, env.total_present_value)
  /\ env' = [env EXCEPT !.duration = ret']
  /\ pc' = "main_print"
  /\ UNCHANGED <<exc, out>>

\* lines 83-93: the driver prints the data and the duration.
MainPrint ==
  /\ pc = "main_print"
  /\ out' = out \o
       << Line("--- Bond Data ---"),
          Line("Cash Flows: {CASH_FLOWS}"),
          Line("Payment Times: {TIMES} years"),
          LineF("YTM: {YTM * 100:.2f}%", FMul(env.ytm, FromInt(100)), 2),
          Line("-------------------------"),
          LineF("Calculated Macaulay Duration (MacD): {duration:.4f} years", env.duration, 4),
          Line("Interpretation: This is the weighted average time until the bond's cash flows are received.") >>
  /\ pc' = "done"
  /\ UNCHANGED <<env, ret, exc>>

\* lines 95-96: except ValueError prints the message; any other exception
\* leaves the try statement and ends the script with a traceback.
MainExcept ==
  /\ pc = "main_except"
  /\ IF exc.type = "ValueError"
     THEN /\ out' = Append(out, Line("Error: " \o exc.msg))
          /\ exc' = NoExc
          /\ pc' = "done"
     ELSE /\ out' = out
          /\ exc' = exc
          /\ pc' = "traceback"
  /\ UNCHANGED <<env, ret>>

NextMacD ==
  \/ MainCall
  \/ CheckLengths
  \/ PresentValueStep
  \/ TotalPresentValue
  \/ ZeroGuard
  \/ WeightedSum
  \/ Divide
  \/ MainPrint
  \/ MainExcept

SpecMacD == InitMacD /\ [][NextMacD]_vars

\* macaulay_duration as one function of its arguments and of the values ds
\* its powers (1 + ytm) ** t took (equal lengths, no power zero or infinite):
\* the value the steps above return.
RECURSIVE PresentValues(_, _)
PresentValues(cfs, ds) ==
  IF cfs = <<>> THEN <<>>
  ELSE <<PresentValue(Head(cfs), Head(ds))>> \o PresentValues(Tail(cfs), Tail(ds))

macaulay_duration(cfs, ts, ds) ==
  LET pvs == PresentValues(cfs, ds)
      total == NpSum(pvs)
  IN  IF FEq(total, F0) THEN F0
      ELSE FDiv(NpSum(SeqMap2Mul(ts, pvs)), total)

\* [k * c for c in cash_flows]
RECURSIVE Scale(_, _)
Scale(k, cfs) ==
  IF cfs = <<>> THEN <<>> ELSE <<FMul(k, Head(cfs))>> \o Scale(k, Tail(cfs))

\* The call has returned to the driver with a value.
Returned == pc = "main_print"

\* C1: a call whose cash_flows and times differ in length computes no present
\* value and returns nothing; it raises ValueError with the length message,
\* and the driver catches it, prints "Error: " and the message as its only
\* line, and ends without a traceback.
C1_LengthMismatch ==
  Len(env.cash_flows) # Len(env.times) =>
    /\ env.present_values = <<>>
    /\ ret = Unset
    /\ pc \in {"main", "md_check", "main_except", "done"}
    /\ pc = "main_except" =>
         exc = [type |-> "ValueError",
                msg |-> "The 'cash_flows' and 'times' arrays must have the same length."]
    /\ pc = "done" =>
         /\ exc = NoExc
         /\ out = << Line("Error: The 'cash_flows' and 'times' arrays must have the same length.") >>
    /\ pc # "done" => ENABLED NextMacD

C1_Witness ==
  /\ Len(env.cash_flows) = 3
  /\ Len(env.times) = 2
  /\ pc = "done"
  /\ Len(out) = 1

YearsCode == Dec(<<2, 7, 7, 7>>, -3)
YearsSpec == Dec(<<2, 7, 6, 8>>, -3)
Milli == Dec(<<1>>, -3)
IsExample ==
  env.cash_flows = CASH_FLOWS /\ env.times = TIMES /\ env.ytm = YTM

\* C2 (as the code computes it): for cash flows [80, 80, 1080], times
\* [1, 2, 3] and ytm 0.10 the returned duration is within 1e-3 of 2.777
\* years, and the driver prints it to four decimals as 2.7774.
C2_ExampleDuration ==
  /\ (Returned /\ IsExample) => FLe(FAbs(FSub(ret, YearsCode)), Milli)
  /\ (pc = "done" /\ IsExample) => out[6].value.units = NFromInt(27774)

\* C2 as stated: the returned duration is within 1e-3 of 2.768 years.
C2_Original ==
  (Returned /\ IsExample) => FLe(FAbs(FSub(ret, YearsSpec)), Milli)

C2_Witness == pc = "done" /\ IsExample /\ Len(out) = 7 /\ IsFin(ret)

\* The factors k: powers of two below and above 1, and factors whose
\* products round.
ScaleFactors == {Dec(<<5>>, -1), FromInt(2), FromInt(3), FromInt(10)}
ScaleTol == Dec(<<1>>, -12)
IsPowerOfTwo(k) == IsFin(k) /\ k.sgn = 0 /\ k.man = NShl(<<1>>, PrecBits - 1)

\* The smallest normal binary64, 2^-1022: a result below it has lost bits.
MinNormal == [cls |-> "fin", sgn |-> 0, man |-> NShl(<<1>>, PrecBits - 1), exp |-> MinExp]
IsNormal(x) == IsFin(x) /\ FLe(MinNormal, FAbs(x))
NoneBelowZero(xs) == \A i \in 1..Len(xs) : FLe(F0, xs[i])

\* No step of the call overflows or underflows: the present value of every
\* cash flow that is not zero is a normal number, so is its product with a
\* time that is not zero, and both sums are finite.
InRange(cfs, ts, ds) ==
  With(PresentValues(cfs, ds), LAMBDA pvs :
    With(SeqMap2Mul(ts, pvs), LAMBDA ws :
      /\ \A i \in 1..Len(cfs) :
           \/ IsZero(cfs[i])
           \/ IsNormal(pvs[i]) /\ (IsZero(ts[i]) \/ IsNormal(ws[i]))
      /\ IsFin(NpSum(pvs))
      /\ IsFin(NpSum(ws))))

\* The conditions of C4 on a call that has returned and on the factor k:
\* no cash flow and no time below zero, ytm above -1 (every discount
\* factor above zero), every k * c of a c that is not zero a normal number,
\* and no overflow or underflow in the call or in the call with the cash
\* flows scaled.
ScaleInRange(k) ==
  /\ NoneBelowZero(env.cash_flows)
  /\ NoneBelowZero(env.times)
  /\ FLt(FromInt(-1), env.ytm)
  /\ \A i \in 1..Len(env.cash_flows) :
       IsZero(env.cash_flows[i]) \/ IsNormal(FMul(k, env.cash_flows[i]))
  /\ InRange(env.cash_flows, env.times, env.discounts)
  /\ InRange(Scale(k, env.cash_flows), env.times, env.discounts)
\* The call with the cash flows scaled: its powers are the same calls of the
\* library with the same arguments, so they take the same values.
Scaled(k) == macaulay_duration(Scale(k, env.cash_flows), env.times, env.discounts)

\* C4 (as the code computes it): for cash flows and times that are not
\* negative and ytm above -1, when a call returns and neither it nor the
\* call with every cash flow multiplied by k > 0 overflows or underflows in
\* any step, the scaled call returns a duration within relative 1e-12 of
\* it; the two are the same value when k is a power of two, and both are
\* 0.0 when the total present value is zero.
C4_ScaleInvariant ==
  Returned =>
    \A k \in ScaleFactors :
      ScaleInRange(k) =>
        With(Scaled(k), LAMBDA scaled :
          /\ RelClose(scaled, ret, ScaleTol)
          /\ IsPowerOfTwo(k) => scaled = ret
          /\ FEq(env.total_present_value, F0) => (ret = F0 /\ scaled = F0))

\* C4 as stated: the scaled call returns the same value, for every k.
C4_Original == Returned => \A k \in ScaleFactors : Scaled(k) = ret

\* A call within the conditions of C4 for which scaling by 3 changes the
\* returned float and scaling by 2 and by 0.5 does not.
C4_Witness ==
  /\ Returned
  /\ Len(env.cash_flows) = 2
  /\ ~FEq(env.total_present_value, F0)
  /\ \A k \in ScaleFactors : ScaleInRange(k)
  /\ Scaled(FromInt(3)) # ret
  /\ Scaled(FromInt(2)) = ret
  /\ Scaled(Dec(<<5>>, -1)) = ret

\* The conditions of C4 are needed.  With a negative time the weighted sum
\* cancels: cash flows 0.1, 0.2, 0.3 at times 1, 1, -1 and ytm 0 return a
\* duration that is not zero, and 0.0 when scaled by 10.
C4_WitnessCancel ==
  /\ Returned
  /\ env.cash_flows = Tenths(3)
  /\ env.times = MixedTimes(3)
  /\ env.ytm = F0
  /\ ~IsZero(ret)
  /\ Scaled(FromInt(10)) = F0

\* With cash flows near the largest float the total overflows: 1e308, 1e308
\* at times 1, 2 and ytm 0 return nan, and 1.5 when scaled by 0.5.
C4_WitnessOverflow ==
  /\ Returned
  /\ env.cash_flows = <<NearLargest, NearLargest>>
  /\ env.times = Every(F1, 2)
  /\ env.ytm = F0
  /\ IsNaN(ret)
  /\ Scaled(Dec(<<5>>, -1)) = Dec(<<1, 5>>, -1)

\* With subnormal cash flows the present values lose bits: 5e-324, 5e-324
\* at times 1, 2 and ytm 0.10 return 1.5, and another value when scaled by 3.
C4_WitnessUnderflow ==
  /\ Returned
  /\ env.cash_flows = <<Subnormal, Subnormal>>
  /\ env.times = Every(F1, 2)
  /\ env.ytm = YTM
  /\ ret = Dec(<<1, 5>>, -1)
  /\ ~RelClose(Scaled(FromInt(3)), ret, ScaleTol)

\* The zero-total case of C4 happens: all cash flows 0, both calls return 0.0.
C4_WitnessZero ==
  /\ Returned
  /\ Len(env.cash_flows) = 3
  /\ FEq(env.total_present_value, F0)
  /\ Scaled(FromInt(3)) = F0

(***************************************************************************)
(* src/unnamed/part_000, lines 84-162: calculate_hhi and its example       *)
(* driver.  The argument is a Python list or a numpy array of numbers.     *)
(***************************************************************************)
MaxFirms == 3

BANK_ASSETS_BILLIONS == <<FromInt(40), FromInt(30), FromInt(15), FromInt(10), FromInt(5)>>

\* shares_array / total_market_size, elementwise (numpy: x / 0 is inf or nan).
RECURSIVE SeqDivBy(_, _)
SeqDivBy(xs, d) ==
  IF xs = <<>> THEN <<>> ELSE <<FDiv(Head(xs), d)>> \o SeqDivBy(Tail(xs), d)

\* array * 100, elementwise.
RECURSIVE SeqMulBy(_, _)
SeqMulBy(xs, k) ==
  IF xs = <<>> THEN <<>> ELSE <<FMul(Head(xs), k)>> \o SeqMulBy(Tail(xs), k)

\* array ** 2, elementwise: numpy squares by multiplying.
RECURSIVE SeqSquare(_)
SeqSquare(xs) ==
  IF xs = <<>> THEN <<>> ELSE <<FMul(Head(xs), Head(xs))>> \o SeqSquare(Tail(xs))

\* (shares_array / total_market_size) * 100
PercentageSharesMutant(xs, total) == SeqDivBy(xs, total)
PercentageShares(xs, total) == SeqMulBy(SeqDivBy(xs, total), FromInt(100))

\* total_market_size == 0
TotalIsZeroMutant(total) == FALSE
TotalIsZero(total) == FEq(total, F0)

\* The market sizes the function is called with: the driver's five banks, and
\* every list or array of at most MaxFirms of these sizes.
MarketSizes == {FromInt(-1), FromInt(0), FromInt(1), FromInt(3), Dec(<<1>>, 17)}
MarketLists == {BANK_ASSETS_BILLIONS} \cup SeqsUpTo(MarketSizes, MaxFirms)
Containers == {"list", "ndarray"}

AmbiguousMessage ==
  "The truth value of an array with more than one element is ambiguous. Use a.any() or a.all()"
EmptyMessage ==
  "The truth value of an empty array is ambiguous. Use array.size > 0 to check that an array is not empty."

InitHHI ==
  /\ pc = "hhi_main"
  /\ \E ms \in MarketLists, c \in Containers :
       env = [market_shares |-> ms, container |-> c,
              shares_array |-> <<>>, total_market_size |-> Unset,
              percentage_shares |-> <<>>, squared_shares |-> <<>>,
              hhi_value |-> Unset, concentration_level |-> ""]
  /\ ret = Unset
  /\ exc = NoExc
  /\ out = <<>>

\* line 139: the driver calls calculate_hhi.
HhiCall ==
  /\ pc = "hhi_main"
  /\ pc' = "hhi_truth"
  /\ UNCHANGED <<env, ret, exc, out>>

\* lines 105-106: "if not market_shares".  A list is false when empty.  An
\* array of one element has the truth of its element; of more than one
\* element it raises ValueError; an empty array is false (with a deprecation
\* warning) or raises ValueError, by the numpy release.
TruthTest ==
  /\ pc = "hhi_truth"
  /\ LET n == Len(env.market_shares)
         returns0 == /\ ret' = F0
                     /\ env' = [env EXCEPT !.hhi_value = F0]
                     /\ pc' = "hhi_print"
                     /\ exc' = exc
         goeson == /\ pc' = "hhi_total"
                   /\ UNCHANGED <<env, ret, exc>>
         raises(m) == /\ exc' = [type |-> "ValueError", msg |-> m]
                      /\ pc' = "traceback"
                      /\ UNCHANGED <<env, ret>>
     IN  IF env.container = "list"
         THEN IF n = 0 THEN returns0 ELSE goeson
         ELSE IF n = 0 THEN returns0 \/ raises(EmptyMessage)
         ELSE IF n = 1
              THEN IF IsZero(env.market_shares[1]) THEN returns0 ELSE goeson
         ELSE raises(AmbiguousMessage)
  /\ out' = out

\* lines 109-113: the float array and its sum.
TotalMarketSize ==
  /\ pc = "hhi_total"
  /\ env' = [env EXCEPT !.shares_array = env.market_shares,
                        !.total_market_size = NpSum(env.market_shares)]
  /\ pc' = "hhi_guard"
  /\ UNCHANGED <<ret, exc, out>>

\* lines 115-116: a zero total returns 0.0.
HhiZeroGuard ==
  /\ pc = "hhi_guard"
  /\ IF TotalIsZero(env.total_market_size)
     THEN /\ ret' = F0
          /\ env' = [env EXCEPT !.hhi_value = F0]
          /\ pc' = "hhi_print"
     ELSE /\ ret' = ret
          /\ env' = env
          /\ pc' = "hhi_percent"
  /\ UNCHANGED <<exc, out>>

\* line 119: the percentage shares.
Percentages ==
  /\ pc = "hhi_percent"
  /\ env' = [env EXCEPT !.percentage_shares =
               PercentageShares(env.shares_array, env.total_market_size)]
  /\ pc' = "hhi_square"
  /\ UNCHANGED <<ret, exc, out>>

\* line 122: the squares.
Squares ==
  /\ pc = "hhi_square"
  /\ env' = [env EXCEPT !.squared_shares = SeqSquare(env.percentage_shares)]
  /\ pc' = "hhi_sum"
  /\ UNCHANGED <<ret, exc, out>>

\* lines 125-127 and 139: the sum is returned and bound to hhi_value.
SumSquares ==
  /\ pc = "hhi_sum"
  /\ ret' = NpSum(env.squared_shares)
  /\ env' = [env EXCEPT !.hhi_value = ret']
  /\ pc' = "hhi_print"
  /\ UNCHANGED <<exc, out>>

\* lines 153-158: the level the index falls in.
ConcentrationLevel(h) ==
  IF FLt(h, FromInt(1500)) THEN "Unconcentrated"
  ELSE IF FLe(h, FromInt(2500)) THEN "Moderately Concentrated"
  ELSE "Highly Concentrated"

\* lines 146-160: the driver prints the index and its level.
HhiPrint ==
  /\ pc = "hhi_print"
  /\ env' = [env EXCEPT !.concentration_level = ConcentrationLevel(env.hhi_value)]
  /\ out' = out \o
       << Line("--- Market Concentration Analysis (HHI) ---"),
          Line("Bank Asset Data (Billions): {BANK_ASSETS_BILLIONS}"),
          Line("---------------------------------------------"),
          LineF("Calculated Herfindahl-Hirschman Index (HHI): {hhi_value:.2f}", env.hhi_value, 2),
          Line("Market Concentration Level: " \o ConcentrationLevel(env.hhi_value)) >>
  /\ pc' = "done"
  /\ UNCHANGED <<ret, exc>>

NextHHI ==
  \/ HhiCall
  \/ TruthTest
  \/ TotalMarketSize
  \/ HhiZeroGuard
  \/ Percentages
  \/ Squares
  \/ SumSquares
  \/ HhiPrint

SpecHHI == InitHHI /\ [][NextHHI]_vars

\* calculate_hhi of a list, as one function: the value the steps above return.
calculate_hhi(ms) ==
  IF ms = <<>> THEN F0
  ELSE LET total == NpSum(ms)
       IN  IF TotalIsZero(total) THEN F0
           ELSE NpSum(SeqSquare(PercentageShares(ms, total)))

\* calculate_hhi has returned to the driver with a value.
HhiReturned == pc = "hhi_print"

RECURSIVE AllPositive(_)
AllPositive(xs) ==
  xs = <<>> \/ (FLt(F0, Head(xs)) /\ AllPositive(Tail(xs)))

AllEqual(xs) == \A i \in 1..Len(xs) : xs[i] = xs[1]

TenThousand == FromInt(10000)
EqualShareIndex(n) == FDiv(TenThousand, FromInt(n))
LowerSlack == Dec(<<9, 9, 9, 9, 9, 9, 9, 9, 9, 9, 9, 9>>, -12)

\* C3 (as the code computes it): when calculate_hhi returns for n >= 1
\* strictly positive sizes, 10000/n * (1 - 1e-12) <= HHI <= 10000; one firm
\* gives exactly 10000, and equal sizes give 10000/n to within that rounding
\* slack, from either side.
C3_Range ==
  (HhiReturned /\ env.market_shares # <<>> /\ AllPositive(env.market_shares)) =>
    LET n == Len(env.market_shares)
    IN  /\ FLe(FMul(EqualShareIndex(n), LowerSlack), ret)
        /\ FLe(ret, TenThousand)
        /\ n = 1 => ret = TenThousand
        /\ AllEqual(env.market_shares) =>
             FLe(FMul(ret, LowerSlack), EqualShareIndex(n))

\* C3 as stated: 10000/n <= HHI <= 10000, the lower bound met by equal
\* sizes and the upper bound only by one firm.
C3_Original ==
  (HhiReturned /\ env.market_shares # <<>> /\ AllPositive(env.market_shares)) =>
    LET n == Len(env.market_shares)
    IN  /\ FLe(EqualShareIndex(n), ret)
        /\ FLe(ret, TenThousand)
        /\ FEq(ret, TenThousand) => n = 1
        /\ AllEqual(env.market_shares) => FEq(ret, EqualShareIndex(n))

\* Three equal firms: the index is returned, just under 10000/3.
C3_Witness ==
  /\ HhiReturned
  /\ env.market_shares = <<F1, F1, F1>>
  /\ FLt(ret, EqualShareIndex(3))
  /\ FLt(FromInt(3333), ret)

\* sum over i of ((value_i / total) * 100) ^ 2, written out.
RECURSIVE SquaredPercentSum(_, _)
SquaredPercentSum(xs, total) ==
  IF xs = <<>> THEN F0
  ELSE LET p == FMul(FDiv(xs[Len(xs)], total), FromInt(100))
       IN  FAdd(SquaredPercentSum(SubSeq(xs, 1, Len(xs) - 1), total), FMul(p, p))

HhiSpecial(xs) == xs = <<>> \/ FEq(NpSum(xs), F0)
HhiDividing == pc \in {"hhi_percent", "hhi_square", "hhi_sum"}

\* What C9 says of one call, whatever holds its numbers.
HhiGuarded ==
  /\ pc # "traceback"
  /\ IF HhiSpecial(env.market_shares)
     THEN /\ ~HhiDividing
          /\ env.percentage_shares = <<>>
          /\ pc \in {"hhi_print", "done"} => ret = F0
     ELSE pc \in {"hhi_print", "done"} =>
            ret = SquaredPercentSum(env.market_shares, NpSum(env.market_shares))

\* C9 (as the code behaves): for a list, calculate_hhi returns exactly 0.0
\* without dividing when the list is empty or its sum is exactly zero, and
\* for every other list returns the sum of ((value_i / total) * 100)^2; it
\* raises for no list.
C9_ZeroGuard == env.container = "list" => HhiGuarded

\* C9 as stated: the same for every input sequence, list or array.
C9_Original == HhiGuarded

\* A list that is neither empty nor all zeros, with sum exactly zero.
C9_Witness ==
  /\ pc = "done"
  /\ env.container = "list"
  /\ env.market_shares = <<FromInt(-1), F0, F1>>
  /\ ret = F0
  /\ env.percentage_shares = <<>>

\* C11: calculate_hhi raises no exception, whether its numbers come in a
\* list or in a numpy array and however many they are, and once it has
\* returned it has returned a number.
C11_NoException ==
  /\ exc = NoExc
  /\ pc \in {"hhi_print", "done"} => (ret # Unset /\ ret.cls \in {"fin", "inf", "nan"})

(***************************************************************************)
(* src/SpaceCharge_Beam_Expansion.py, lines 1-123: the space-charge limit, *)
(* the transverse expansion, and the script that runs both.  The functions *)
(* are run by the script and, with other arguments, by a direct caller.    *)
(***************************************************************************)
MaxPoints == 3

E_CHARGE == Dec(<<1, 6, 0, 2, 1, 7, 6, 6, 3, 4>>, -28)
E_MASS_KG == Dec(<<9, 1, 0, 9, 3, 8, 3, 5, 6>>, -39)
EPSILON_0 == Dec(<<8, 8, 5, 4, 1, 8, 7, 8, 1, 7>>, -21)
C_LIGHT == FromInt(299792458)
NpPi == Dec(<<3, 1, 4, 1, 5, 9, 2, 6, 5, 3, 5, 8, 9, 7, 9, 3>>, -15)

VOLTAGE == FromInt(50000)
DISTANCE == Dec(<<5>>, -2)
AREA == Dec(<<1>>, -4)
CHARGE == Dec(<<1, 0, 0>>, -12)
R_INITIAL == Dec(<<1>>, -3)
GAMMA == FromInt(20)
DRIFT_DISTANCE == F1
NumPoints == 11

\* numpy.linspace(0, stop, num): i * step for i < num - 1, then stop itself.
RECURSIVE LinspaceSteps(_, _)
LinspaceSteps(step, n) ==
  IF n = 0 THEN <<>> ELSE Append(LinspaceSteps(step, n - 1), FMul(FromInt(n - 1), step))
Linspace(stop, num) ==
  Append(LinspaceSteps(FDiv(stop, FromInt(num - 1)), num - 1), stop)

\* n / d with d zero raises ZeroDivisionError when both operands are Python
\* floats; when either is a numpy float64 the division is numpy's and gives
\* inf or nan (with a warning).
FloatDivRaises(nkind, dkind, d) == nkind = "float" /\ dkind = "float" /\ IsZero(d)

\* line 33: (4.0/9.0) * EPSILON_0 * np.sqrt(2 * E_CHARGE / E_MASS_KG)
PerveanceConstant ==
  FMul(FMul(FDiv(FromInt(4), FromInt(9)), EPSILON_0),
       FSqrt(FDiv(FMul(FromInt(2), E_CHARGE), E_MASS_KG)))

\* line 76: the denominator and the quotient B, for the value cube that
\* (C_LIGHT * gamma)**3 took.
BDenominator(cube) ==
  FMul(FMul(FMul(FMul(FromInt(4), NpPi), EPSILON_0), E_MASS_KG), cube)
BFactor(cube) == FDiv(FMul(FromInt(2), E_CHARGE), BDenominator(cube))

\* line 79: B * initial_charge_c / initial_radius_m**2, for the value rsq the
\* square took.
GrowthRate(B, q, rsq) == FDiv(FMul(B, q), rsq)

\* line 83, one element: initial_radius_m * np.sqrt(1.0 + (k_g * z)**2)
RadiusAtMutant(r0, kg, z) ==
  LET kz == FMul(kg, z) IN FDiv(r0, FSqrt(FAdd(F1, FMul(kz, kz))))
RadiusAt(r0, kg, z) ==
  LET kz == FMul(kg, z) IN FMul(r0, FSqrt(FAdd(F1, FMul(kz, kz))))

RECURSIVE RadiusExpansion(_, _, _)
RadiusExpansion(r0, kg, zs) ==
  IF zs = <<>> THEN <<>>
  ELSE <<RadiusAt(r0, kg, Head(zs))>> \o RadiusExpansion(r0, kg, Tail(zs))

\* The arguments of direct calls.
\* 2.0 ** 700, a voltage whose power 1.5 is beyond the largest float.
HugeVoltage == [cls |-> "fin", sgn |-> 0, man |-> NShl(<<1>>, PrecBits - 1), exp |-> 700 - (PrecBits - 1)]
Voltages == {VOLTAGE, HugeVoltage}
Distances == {DISTANCE, F0}
NumberKinds == {"float", "float64"}
Beams == { <<R_INITIAL, CHARGE, GAMMA>>,
           <<Dec(<<1>>, -6), Dec(<<1>>, -9), F1>>,
           <<Dec(<<1>>, -6), Dec(<<1>>, -9), F0>>,
           <<F0, CHARGE, GAMMA>> }
ZValues == {FromInt(-2), FromInt(-1), F0, F1, FromInt(2)}
Increasing(zs) == \A i \in 1..(Len(zs) - 1) : FLt(zs[i], zs[i + 1])
ZLists == {zs \in SeqsUpTo(ZValues, MaxPoints) : Increasing(zs)}

SCBlank ==
  [entry |-> "script",
   voltage_v |-> Unset, voltage_kind |-> "float",
   distance_m |-> Unset, distance_kind |-> "float",
   cathode_area_m2 |-> Unset, area_kind |-> "float", perveance_constant_k |-> Unset, i_limit |-> Unset,
   initial_radius_m |-> Unset, initial_charge_c |-> Unset, gamma |-> Unset,
   z_points_m |-> <<>>, B |-> Unset, k_g |-> Unset, r_expansion |-> <<>>, row |-> 0]

InitSC ==
  /\ \/ pc = "sc_main" /\ env = SCBlank
     \/ /\ pc = "scl_perveance"
        /\ \E v \in Voltages, d \in Distances,
              kv \in NumberKinds, kd \in NumberKinds, ka \in NumberKinds :
             env = [SCBlank EXCEPT !.entry = "limit",
                                   !.voltage_v = v, !.voltage_kind = kv,
                                   !.distance_m = d, !.distance_kind = kd,
                                   !.cathode_area_m2 = AREA, !.area_kind = ka]
     \/ /\ pc = "sce_B"
        /\ \E b \in Beams, zs \in ZLists :
             env = [SCBlank EXCEPT !.entry = "expand", !.initial_radius_m = b[1],
                                   !.initial_charge_c = b[2], !.gamma = b[3],
                                   !.z_points_m = zs]
  /\ ret = Unset
  /\ exc = NoExc
  /\ out = <<>>

\* Where an exception nobody catches leaves the run.
Uncaught == IF env.entry = "script" THEN "traceback" ELSE "raised"

\* A printed line with two formatted numbers in it.
Line2(t, x, nx, y, ny) ==
  [text |-> t, value |-> FormatFixed(x, nx), second |-> FormatFixed(y, ny)]

\* line 95: the script calls calculate_space_charge_limit with its constants.
ScriptLimitCall ==
  /\ pc = "sc_main"
  /\ env' = [env EXCEPT !.voltage_v = VOLTAGE, !.voltage_kind = "float",
                        !.distance_m = DISTANCE, !.distance_kind = "float",
                        !.cathode_area_m2 = AREA, !.area_kind = "float"]
  /\ pc' = "scl_perveance"
  /\ UNCHANGED <<ret, exc, out>>

\* line 33: the perveance constant.
LimitPerveance ==
  /\ pc = "scl_perveance"
  /\ env' = [env EXCEPT !.perveance_constant_k = PerveanceConstant]
  /\ pc' = "scl_current"
  /\ UNCHANGED <<ret, exc, out>>

\* lines 36-38 and 95: k * voltage ** 1.5 is computed first, then
\* area / distance ** 2, then their product is returned and bound to i_limit;
\* vpow and dsq are the values the two powers took.  A power of a Python
\* float raises OverflowError when it overflows; a power of a numpy float64
\* is inf then.
LimitCurrent ==
  /\ pc = "scl_current"
  /\ \E vpow \in FloatPow(env.voltage_v, Dec(<<1, 5>>, -1)),
        dsq \in FloatPow(env.distance_m, FromInt(2)) :
     LET raise(t, m) == /\ exc' = [type |-> t, msg |-> m]
                        /\ pc' = Uncaught
                        /\ UNCHANGED <<env, ret>>
     IN  IF env.voltage_kind = "float" /\ PowOverflows(env.voltage_v, vpow)
         THEN raise("OverflowError", "(34, 'Numerical result out of range')")
         ELSE IF env.distance_kind = "float" /\ PowOverflows(env.distance_m, dsq)
         THEN raise("OverflowError", "(34, 'Numerical result out of range')")
         ELSE IF FloatDivRaises(env.area_kind, env.distance_kind, dsq)
         THEN raise("ZeroDivisionError", "float division by zero")
         ELSE /\ ret' = FMul(FMul(env.perveance_constant_k, vpow),
                             FDiv(env.cathode_area_m2, dsq))
              /\ env' = [env EXCEPT !.i_limit = ret']
              /\ pc' = IF env.entry = "script" THEN "sc_print1" ELSE "returned"
              /\ exc' = exc
  /\ out' = out

\* lines 97-100: the script prints part 1.
ScriptPrintLimit ==
  /\ pc = "sc_print1"
  /\ out' = out \o
       << Line("--- Part 1: Space-Charge Limited Current (Simplified Diode) ---"),
          LineF("Voltage: {VOLTAGE/1000.0} kV, Gap: {DISTANCE*100} cm, Area: {AREA*10000.0:.2f} cm^2",
                FMul(AREA, FromInt(10000)), 2),
          LineF("Maximum Current (I_max): {i_limit * 1000.0:.3f} mA",
                FMul(env.i_limit, FromInt(1000)), 3),
          Line("-----------------------------------------------------------------") >>
  /\ pc' = "sc_expand"
  /\ UNCHANGED <<env, ret, exc>>

\* lines 108-109: z_points, and the call
\* simulate_transverse_expansion(CHARGE, R_INITIAL, GAMMA, z_points), whose
\* first parameter is initial_radius_m and second initial_charge_c.
ScriptExpandCall ==
  /\ pc = "sc_expand"
  /\ env' = [env EXCEPT !.initial_radius_m = CHARGE, !.initial_charge_c = R_INITIAL,
                        !.gamma = GAMMA,
                        !.z_points_m = Linspace(DRIFT_DISTANCE, NumPoints)]
  /\ pc' = "sce_B"
  /\ UNCHANGED <<ret, exc, out>>

\* line 76: B, in Python floats.
ExpandB ==
  /\ pc = "sce_B"
  /\ \E cube \in FloatPow(FMul(C_LIGHT, env.gamma), FromInt(3)) :
         IF PowOverflows(FMul(C_LIGHT, env.gamma), cube)
         THEN /\ exc' = [type |-> "OverflowError", msg |-> "(34, 'Numerical result out of range')"]
              /\ pc' = Uncaught
              /\ env' = env
         ELSE IF IsZero(BDenominator(cube))
         THEN /\ exc' = [type |-> "ZeroDivisionError", msg |-> "float division by zero"]
              /\ pc' = Uncaught
              /\ env' = env
         ELSE /\ env' = [env EXCEPT !.B = BFactor(cube)]
              /\ pc' = "sce_kg"
              /\ exc' = exc
  /\ UNCHANGED <<ret, out>>

\* line 79: k_g, in Python floats.
ExpandGrowthRate ==
  /\ pc = "sce_kg"
  /\ \E rsq \in FloatPow(env.initial_radius_m, FromInt(2)) :
         IF PowOverflows(env.initial_radius_m, rsq)
         THEN /\ exc' = [type |-> "OverflowError", msg |-> "(34, 'Numerical result out of range')"]
              /\ pc' = Uncaught
              /\ env' = env
         ELSE IF IsZero(rsq)
         THEN /\ exc' = [type |-> "ZeroDivisionError", msg |-> "float division by zero"]
              /\ pc' = Uncaught
              /\ env' = env
         ELSE /\ env' = [env EXCEPT !.k_g =
                           GrowthRate(env.B, env.initial_charge_c, rsq)]
              /\ pc' = "sce_radius"
              /\ exc' = exc
  /\ UNCHANGED <<ret, out>>

\* lines 83-85 and 109: the radii, as a numpy array, returned and bound to
\* r_expansion.
ExpandRadius ==
  /\ pc = "sce_radius"
  /\ ret' = RadiusExpansion(env.initial_radius_m, env.k_g, env.z_points_m)
  /\ env' = [env EXCEPT !.r_expansion = ret']
  /\ pc' = IF env.entry = "script" THEN "sc_print2" ELSE "returned"
  /\ UNCHANGED <<exc, out>>

\* lines 111-118: the header of part 2, from the script's constants.
ScriptPrintHeader ==
  /\ pc = "sc_print2"
  /\ out' = out \o
       << Line("--- Part 2: Transverse Bunch Radius Expansion Simulation ---"),
          LineF("Initial Charge (Q): {CHARGE*1e12:.0f} pC", FMul(CHARGE, Dec(<<1>>, 12)), 0),
          LineF("Initial Radius (R_0): {R_INITIAL*1000.0:.1f} mm", FMul(R_INITIAL, FromInt(1000)), 1),
          LineF("Relativistic Factor ($\\gamma$): {GAMMA:.1f}", GAMMA, 1),
          Line("-----------------------------------------------------------------"),
          Line("Drift Distance (m) | Final Radius (mm)"),
          Line("-------------------|------------------") >>
  /\ env' = [env EXCEPT !.row = 1]
  /\ pc' = "sc_rows"
  /\ UNCHANGED <<ret, exc>>

\* lines 119-120: one row of the table.
ScriptPrintRow ==
  /\ pc = "sc_rows"
  /\ env.row <= Len(env.z_points_m)
  /\ out' = Append(out, Line2("{z:.2f}               | {r*1000.0:.3f}",
                              env.z_points_m[env.row], 2,
                              FMul(env.r_expansion[env.row], FromInt(1000)), 3))
  /\ env' = [env EXCEPT !.row = @ + 1]
  /\ UNCHANGED <<pc, ret, exc>>

\* lines 122-123: the closing lines.
ScriptPrintTail ==
  /\ pc = "sc_rows"
  /\ env.row > Len(env.z_points_m)
  /\ out' = out \o
       << Line("\nInterpretation:"),
          Line("The radius grows significantly due to space-charge effects. The paper's goal is to manage this expansion to achieve an optimal ellipsoidal shape and preserve beam quality (low emittance).") >>
  /\ pc' = "done"
  /\ UNCHANGED <<env, ret, exc>>

NextSC ==
  \/ ScriptLimitCall
  \/ LimitPerveance
  \/ LimitCurrent
  \/ ScriptPrintLimit
  \/ ScriptExpandCall
  \/ ExpandB
  \/ ExpandGrowthRate
  \/ ExpandRadius
  \/ ScriptPrintHeader
  \/ ScriptPrintRow
  \/ ScriptPrintTail

SpecSC == InitSC /\ [][NextSC]_vars

\* simulate_transverse_expansion has returned its radii (to the script or to
\* a direct caller).
ExpandReturned == pc \in {"returned", "sc_print2"} /\ env.entry # "limit"

RECURSIVE NonDecreasing(_)
NonDecreasing(rs) ==
  Len(rs) < 2 \/ (FLe(rs[1], rs[2]) /\ NonDecreasing(Tail(rs)))

NoneNegative(zs) == \A i \in 1..Len(zs) : FLe(F0, zs[i])

\* C5 (as the code computes it): for initial_radius > 0, a finite growth
\* rate k_g and a strictly increasing sequence of drift distances none of
\* which is negative, the returned radii r0 * sqrt(1 + (k_g * z)^2) are
\* non-decreasing from each element to the next.
C5_NonDecreasing ==
  (/\ ExpandReturned
   /\ FLt(F0, env.initial_radius_m)
   /\ IsFin(env.k_g)
   /\ Increasing(env.z_points_m)
   /\ NoneNegative(env.z_points_m)) =>
    /\ Len(ret) = Len(env.z_points_m)
    /\ NonDecreasing(ret)

\* C5 as stated: the same for any strictly increasing drift distances,
\* whatever their sign.
C5_Original ==
  (/\ ExpandReturned
   /\ FLt(F0, env.initial_radius_m)
   /\ IsFin(env.k_g)
   /\ Increasing(env.z_points_m)) =>
    /\ Len(ret) = Len(env.z_points_m)
    /\ NonDecreasing(ret)

\* Three drift distances from 0 up, with radii that grow at every step.
C5_Witness ==
  /\ pc = "returned"
  /\ env.entry = "expand"
  /\ env.z_points_m = <<F0, F1, FromInt(2)>>
  /\ FLt(ret[1], ret[2])
  /\ FLt(ret[2], ret[3])

\* What the code does with distance 0 (and the area and a voltage above
\* zero): k * voltage ** 1.5 comes first and raises OverflowError when the
\* voltage is a Python float whose power overflows; then
\* cathode_area / distance ** 2 raises ZeroDivisionError when the area and
\* the distance are both Python floats; only when one of the two is a numpy
\* float64 is the division a value, and the call returns +infinity.
LimitOverflows == env.voltage_kind = "float" /\ env.voltage_v = HugeVoltage
LimitZeroDivides ==
  ~LimitOverflows /\ env.area_kind = "float" /\ env.distance_kind = "float"
C7_ZeroDistance ==
  (env.entry = "limit" /\ IsZero(env.distance_m)) =>
    /\ pc \in {"scl_perveance", "scl_current", "raised", "returned"}
    /\ pc = "raised" =>
         \/ LimitOverflows /\ exc.type = "OverflowError"
         \/ LimitZeroDivides /\ exc.type = "ZeroDivisionError"
    /\ pc = "returned" => (~LimitOverflows /\ ~LimitZeroDivides /\ ret = FInf(0))
    /\ (LimitOverflows \/ LimitZeroDivides) => ret = Unset

\* C7: called with distance 0 and the script's voltage and area, the call
\* raises nothing and returns +infinity.
C7_Original ==
  (env.entry = "limit" /\ IsZero(env.distance_m) /\ env.voltage_v = VOLTAGE) =>
    /\ pc # "raised"
    /\ pc = "returned" => ret = FInf(0)

\* The call with Python floats 50000.0, 0.0, 1e-4 has raised.
C7_Witness ==
  /\ pc = "raised"
  /\ env.entry = "limit"
  /\ env.voltage_kind = "float"
  /\ env.distance_kind = "float"
  /\ env.area_kind = "float"
  /\ IsZero(env.distance_m)
  /\ env.voltage_v = VOLTAGE
  /\ exc.type = "ZeroDivisionError"

\* The call with a numpy float64 area and a Python float 0.0 for the
\* distance has returned +infinity.
C7_WitnessReturned ==
  /\ pc = "returned"
  /\ env.entry = "limit"
  /\ env.distance_kind = "float"
  /\ env.area_kind = "float64"
  /\ IsZero(env.distance_m)
  /\ ret = FInf(0)

\* C8: once the script has made its call, initial_radius_m is the script's
\* R_INITIAL (1e-3 m) and initial_charge_c its CHARGE (100e-12 C), and the
\* radius returned for the first point z = 0 is R_INITIAL.
C8_DriverArguments ==
  (env.entry = "script" /\ env.initial_radius_m # Unset) =>
    /\ env.initial_radius_m = R_INITIAL
    /\ env.initial_charge_c = CHARGE
    /\ env.r_expansion # <<>> => env.r_expansion[1] = R_INITIAL

(***************************************************************************)
(* src/SpaceCharge_Beam_Expansion.py, lines 126-225: the relativistic      *)
(* kinematics of an electron of a given total energy, and the script that  *)
(* prints them for 10 GeV.  The constants E_CHARGE, E_MASS_KG and C_LIGHT  *)
(* of lines 130-132 are the values of lines 4-7 again.  The constants that *)
(* are worked out with a power depend on the value the power took.         *)
(***************************************************************************)
JOULES_PER_EV == Dec(<<1, 6, 0, 2, 1, 7, 6, 6, 3, 4>>, -28)
\* lines 137-138, for the value c2 that C_LIGHT**2 took.
E_REST_J(c2) == FMul(E_MASS_KG, c2)
E_REST_MEV(c2) == FDiv(FDiv(E_REST_J(c2), JOULES_PER_EV), Dec(<<1>>, 6))
TARGET_ENERGY_GEV == FromInt(10)
PLASMA_DENSITY_CM3 == Dec(<<1>>, 18)
\* lines 219-221, for the value q2 that E_CHARGE**2 took.
PLASMA_FREQUENCY(q2) ==
  FSqrt(FDiv(FMul(PLASMA_DENSITY_CM3, q2),
             FMul(E_MASS_KG, Dec(<<8, 8, 5, 4>>, -15))))
PLASMA_WAVELENGTH(q2) == FMul(FDiv(C_LIGHT, PLASMA_FREQUENCY(q2)), Dec(<<1>>, 6))

\* line 157
EnergyMev(energy_gev) == FMul(energy_gev, FromInt(1000))

\* line 161
LorentzGamma(energy_mev, rest_mev) == FDiv(energy_mev, rest_mev)

\* line 166: "gamma <= 1" (false for a nan).
AtRest(gamma) == FLe(gamma, F1)

\* line 171: sqrt(1.0 - (1.0 / gamma**2)), for the value g2 that gamma**2 took.
BetaOfMutant(g2) == FSqrt(FSub(F1, g2))
BetaOf(g2) == FSqrt(FSub(F1, FDiv(F1, g2)))

\* line 176
MomentumMevc(gamma, rest_mev, beta) == FMul(FMul(gamma, rest_mev), beta)

\* The energies of direct calls, in GeV.
MaxDecade == 6
SmallEnergies ==
  { Dec(<<5, 1, 0>>, -6), Dec(<<5, 1, 1>>, -6), Dec(<<5, 1, 2>>, -6), Dec(<<6>>, -4),
    Dec(<<2>>, 4), Dec(<<5>>, 4), Dec(<<7>>, 4) }
Decades == { Dec(<<1>>, d - 3) : d \in 0..(MaxDecade + 3) }
HugeEnergies == { Dec(<<1>>, 150), Dec(<<1>>, 151), Dec(<<1>>, 160), FInf(0), FNaN }
Energies == {F0, FromInt(-1)} \cup SmallEnergies \cup Decades \cup HugeEnergies

RelBlank ==
  [entry |-> "script", E_REST_MEV |-> Unset, energy_gev |-> Unset, energy_mev |-> Unset,
   gamma |-> Unset, beta |-> Unset, momentum_mevc |-> Unset, speed_difference |-> Unset]

\* The module has been loaded up to line 138 (E_REST_MEV is bound); the script
\* goes on to its own call, a direct caller calls the function.
InitRel ==
  /\ \E c2 \in FloatPow(C_LIGHT, FromInt(2)) :
       \/ pc = "rel_main" /\ env = [RelBlank EXCEPT !.E_REST_MEV = E_REST_MEV(c2)]
       \/ /\ pc = "rel_energy"
          /\ \E e \in Energies :
               env = [RelBlank EXCEPT !.E_REST_MEV = E_REST_MEV(c2),
                                      !.entry = "call", !.energy_gev = e]
  /\ ret = Unset
  /\ exc = NoExc
  /\ out = <<>>

\* line 192: the script calls calculate_relativistic_properties(TARGET_ENERGY_GEV).
RelScriptCall ==
  /\ pc = "rel_main"
  /\ env' = [env EXCEPT !.energy_gev = TARGET_ENERGY_GEV]
  /\ pc' = "rel_energy"
  /\ UNCHANGED <<ret, exc, out>>

\* line 157
RelEnergy ==
  /\ pc = "rel_energy"
  /\ env' = [env EXCEPT !.energy_mev = EnergyMev(env.energy_gev)]
  /\ pc' = "rel_gamma"
  /\ UNCHANGED <<ret, exc, out>>

\* line 161
RelGamma ==
  /\ pc = "rel_gamma"
  /\ env' = [env EXCEPT !.gamma = LorentzGamma(env.energy_mev, env.E_REST_MEV)]
  /\ pc' = "rel_beta"
  /\ UNCHANGED <<ret, exc, out>>

\* lines 166-171: beta is 0.0 at gamma <= 1; past that gamma**2 is a Python
\* float power, which raises OverflowError when a finite gamma has no
\* finite square.
RelBeta ==
  /\ pc = "rel_beta"
  /\ IF AtRest(env.gamma)
     THEN /\ env' = [env EXCEPT !.beta = F0]
          /\ pc' = "rel_momentum"
          /\ exc' = exc
     ELSE \E g2 \in FloatPow(env.gamma, FromInt(2)) :
            IF PowOverflows(env.gamma, g2)
            THEN /\ exc' = [type |-> "OverflowError", msg |-> "(34, 'Numerical result out of range')"]
                 /\ pc' = IF env.entry = "script" THEN "traceback" ELSE "raised"
                 /\ env' = env
            ELSE /\ env' = [env EXCEPT !.beta = BetaOf(g2)]
                 /\ pc' = "rel_momentum"
                 /\ exc' = exc
  /\ UNCHANGED <<ret, out>>

\* lines 176-182: the momentum, and the dictionary returned.
RelMomentum ==
  /\ pc = "rel_momentum"
  /\ env' = [env EXCEPT !.momentum_mevc = MomentumMevc(env.gamma, env.E_REST_MEV, env.beta)]
  /\ ret' = [gamma |-> env.gamma, beta |-> env.beta,
             momentum_mevc |-> MomentumMevc(env.gamma, env.E_REST_MEV, env.beta)]
  /\ pc' = IF env.entry = "script" THEN "rel_speed" ELSE "returned"
  /\ UNCHANGED <<exc, out>>

\* line 195
RelSpeedDifference ==
  /\ pc = "rel_speed"
  /\ env' = [env EXCEPT !.speed_difference = FMul(FSub(F1, ret.beta), C_LIGHT)]
  /\ pc' = "rel_print"
  /\ UNCHANGED <<ret, exc, out>>

\* lines 198-212: the analysis is printed.
RelPrint ==
  /\ pc = "rel_print"
  /\ out' = out \o
       << Line("--- Analysis of a High-Energy Electron Beam (LWFA) ---"),
          LineF("Electron Rest Mass Energy ($m_e c^2$): {E_REST_MEV:.3f} MeV", env.E_REST_MEV, 3),
          LineF("Target Electron Total Energy: {TARGET_ENERGY_GEV:.2f} GeV", TARGET_ENERGY_GEV, 2),
          Line("-------------------------------------------------------"),
          LineF("1. Lorentz Factor ($\\gamma$): {properties['gamma']:.0f}", ret.gamma, 0),
          Line("   (This shows the electron's mass/energy has increased by this factor)"),
          LineF("2. Speed ($v/c$): {properties['beta']:.12f}", ret.beta, 12),
          Line("   (Extremely close to the speed of light, $c$)"),
          LineF("3. Momentum ($p$): {properties['momentum_mevc'] / 1000.0:.3f} GeV/c",
                FDiv(ret.momentum_mevc, FromInt(1000)), 3),
          Line("-------------------------------------------------------"),
          Line("4. Velocity Difference from $c$:"),
          LineF("   The electron's speed is {speed_difference:.2f} m/s slower than the speed of light ($c$).",
                env.speed_difference, 2),
          Line("   (A highly relativistic particle's speed is effectively $c$ for most purposes)") >>
  /\ pc' = "rel_plasma"
  /\ UNCHANGED <<env, ret, exc>>

\* lines 218-225: the plasma wavelength is worked out and printed.
RelPlasma ==
  /\ pc = "rel_plasma"
  /\ \E q2 \in FloatPow(E_CHARGE, FromInt(2)) :
       out' = out \o
         << Line("\n--- Contextual Physics (Plasma Wakefield) ---"),
            LineF("Estimated Plasma Wavelength ($\\lambda_p$) at $10^{18}$ cm$^{-3}$: {PLASMA_WAVELENGTH:.2f} $\\mu$m",
                  PLASMA_WAVELENGTH(q2), 2),
            Line("   (This is the characteristic length scale of the accelerator structure)") >>
  /\ pc' = "done"
  /\ UNCHANGED <<env, ret, exc>>

NextRel ==
  \/ RelScriptCall
  \/ RelEnergy
  \/ RelGamma
  \/ RelBeta
  \/ RelMomentum
  \/ RelSpeedDifference
  \/ RelPrint
  \/ RelPlasma

SpecRel == InitRel /\ [][NextRel]_vars

\* gamma for energy_gev, the values gamma**2 may take without overflowing,
\* and the values of beta calculate_relativistic_properties may return for
\* energy_gev (none when it can only raise), with the rest energy of this run.
GammaAt(energy_gev) == LorentzGamma(EnergyMev(energy_gev), env.E_REST_MEV)
FiniteSquares(gamma) == {g2 \in FloatPow(gamma, FromInt(2)) : ~PowOverflows(gamma, g2)}
BetaAt(energy_gev) ==
  IF AtRest(GammaAt(energy_gev)) THEN {F0}
  ELSE {BetaOf(g2) : g2 \in FiniteSquares(GammaAt(energy_gev))}
SquareCanOverflow(gamma) ==
  \E g2 \in FloatPow(gamma, FromInt(2)) : PowOverflows(gamma, g2)

\* A direct call with gamma above 1.
RelMoving == env.entry = "call" /\ env.gamma # Unset /\ FLt(F1, env.gamma)

\* C6 (as the code computes it): for an energy with gamma above 1 the call
\* raises only when gamma**2 overflows (OverflowError); when it returns,
\* 0 <= beta <= 1, and beta never decreases as the energy rises: a higher
\* energy for which the call returns gives a beta at least as large.
C6_BetaRange ==
  RelMoving =>
    /\ pc = "raised" =>
         (exc.type = "OverflowError" /\ SquareCanOverflow(env.gamma))
    /\ pc = "returned" =>
         /\ FLe(F0, ret.beta)
         /\ FLe(ret.beta, F1)
         /\ \A e2 \in Energies :
              FLt(env.energy_gev, e2) => \A b2 \in BetaAt(e2) : FLe(ret.beta, b2)

\* C6 as stated: the call returns, beta is below 1, and a higher energy
\* gives a larger beta.
C6_Original ==
  RelMoving =>
    /\ pc # "raised"
    /\ pc = "returned" =>
         /\ FLe(F0, ret.beta)
         /\ FLt(ret.beta, F1)
         /\ \A e2 \in Energies :
              FLt(env.energy_gev, e2) => \A b2 \in BetaAt(e2) : FLt(ret.beta, b2)

\* 100000 GeV: the call has returned beta = 1.0 exactly.
C6_Witness ==
  /\ pc = "returned"
  /\ env.entry = "call"
  /\ env.energy_gev = Dec(<<1>>, 5)
  /\ FLt(F1, env.gamma)
  /\ ret.beta = F1

(***************************************************************************)
(* src/unnamed/part_000, lines 1-81: the Gaussian beam profile fitter.     *)
(* scipy's curve_fit is outside the repository: its call either returns    *)
(* three fitted parameters and the diagonal of their covariance, or raises *)
(* RuntimeError (no convergence), or raises something else.  The measured  *)
(* data of lines 29-36 carry random noise and are read by curve_fit only.  *)
(***************************************************************************)
NumDataPoints == 50

\* What curve_fit can hand back: fitted values, variances (infinite when the
\* covariance could not be estimated), and the messages of its errors.
FitValues == { Dec(<<1, 0, 0, 1, 2, 5>>, -3), Dec(<<5, 0, 0, 4>>, -3), Dec(<<1, 2, 3, 5>>, -3) }
FitVariances == { Dec(<<4>>, -2), FInf(0) }
NotFoundDetails ==
  { "Optimal parameters not found: Number of calls to function has reached maxfev = 800.",
    "Optimal parameters not found: The maximum number of function evaluations is exceeded." }

\* An exception's class is given with its bases, most derived first, as
\* isinstance walks them.
PlainException(type) == <<type, "Exception", "BaseException">>
NotFoundErrors ==
  { [type |-> "RuntimeError", msg |-> d, mro |-> PlainException("RuntimeError")] :
      d \in NotFoundDetails }
OtherErrors ==
  { [type |-> "ValueError", msg |-> "array must not contain infs or NaNs",
     mro |-> PlainException("ValueError")],
    [type |-> "TypeError",
     msg |-> "Improper input: func input vector length N=3 must not exceed func output vector length M=2",
     mro |-> PlainException("TypeError")],
    [type |-> "RecursionError", msg |-> "maximum recursion depth exceeded",
     mro |-> <<"RecursionError", "RuntimeError", "Exception", "BaseException">>],
    [type |-> "KeyboardInterrupt", msg |-> "",
     mro |-> <<"KeyboardInterrupt", "BaseException">>] }

IsInstance(mro, class) == \E i \in 1..Len(mro) : mro[i] = class

\* The except clause that catches an exception raised inside the try of
\* lines 48-75, given the bases of its class: "except RuntimeError" first
\* (subclasses of RuntimeError with it), "except Exception" after it; an
\* exception that is no Exception is caught by neither and ends the script
\* with its traceback.
ExceptClauseMutant(mro) == "fit_unexpected"
ExceptClause(mro) ==
  IF IsInstance(mro, "RuntimeError") THEN "fit_notfound"
  ELSE IF IsInstance(mro, "Exception") THEN "fit_unexpected"
  ELSE "traceback"

LineS(t, s) == [text |-> t, value |-> NoValue, str |-> s]

FitBlank ==
  [fit |-> "none", popt |-> <<>>, pcov_diag |-> <<>>,
   fitted_amplitude |-> Unset, fitted_center |-> Unset, fitted_sigma |-> Unset,
   perr |-> <<>>]

InitFit ==
  /\ pc = "fit_main"
  /\ env = FitBlank
  /\ ret = Unset
  /\ exc = NoExc
  /\ out = <<>>

\* line 46: the initial guesses are built from the measured data.  Their
\* numbers (the largest noisy intensity, the mean position, 1.0) are passed
\* to curve_fit and read nowhere else; what curve_fit does with them is the
\* choice of FitCurveFit.
FitGuesses ==
  /\ pc = "fit_main"
  /\ pc' = "fit_call"
  /\ UNCHANGED <<env, ret, exc, out>>

\* line 50: curve_fit returns popt and pcov, or raises.
FitCurveFit ==
  /\ pc = "fit_call"
  /\ \/ /\ \E a \in FitValues, c \in FitValues, s \in FitValues, v \in FitVariances :
             /\ ret' = [popt |-> <<a, c, s>>, pcov_diag |-> <<v, v, v>>]
             /\ env' = [env EXCEPT !.fit = "returned", !.popt = <<a, c, s>>,
                                   !.pcov_diag = <<v, v, v>>]
        /\ pc' = "fit_unpack"
        /\ exc' = exc
     \/ /\ \E e \in NotFoundErrors \cup OtherErrors :
             /\ exc' = e
             /\ env' = [env EXCEPT !.fit = e.type]
             /\ pc' = ExceptClause(e.mro)
        /\ ret' = ret
  /\ out' = out

\* lines 53-57: the parameters are unpacked and their standard errors taken.
FitUnpack ==
  /\ pc = "fit_unpack"
  /\ env' = [env EXCEPT !.fitted_amplitude = env.popt[1],
                        !.fitted_center = env.popt[2],
                        !.fitted_sigma = env.popt[3],
                        !.perr = <<FSqrt(env.pcov_diag[1]), FSqrt(env.pcov_diag[2]),
                                   FSqrt(env.pcov_diag[3])>>]
  /\ pc' = "fit_print"
  /\ UNCHANGED <<ret, exc, out>>

\* lines 62-71: the results are printed.
FitPrint ==
  /\ pc = "fit_print"
  /\ out' = out \o
       << Line("--- Muon Beam Profile Analysis (Gaussian Fit) ---"),
          [text |-> "Total simulated data points: {len(x_data)}", value |-> NoValue,
           count |-> NumDataPoints],
          Line("--------------------------------------------------"),
          Line("Fitted Beam Parameters:"),
          Line2("1. Amplitude (Peak Intensity): {fitted_amplitude:.2f} +/- {err_amplitude:.2f}",
                env.fitted_amplitude, 2, env.perr[1], 2),
          Line2("2. Center Position (Centroid): {fitted_center:.3f} mm +/- {err_center:.3f} mm",
                env.fitted_center, 3, env.perr[2], 3),
          Line2("3. Beam Width (Sigma):       {fitted_sigma:.3f} mm +/- {err_sigma:.3f} mm",
                env.fitted_sigma, 3, env.perr[3], 3),
          Line("\nInterpretation:"),
          Line("The $\\sigma$ (Sigma) parameter represents the standard deviation of the beam,"),
          Line("which is directly related to the beam spot size and its angular divergence.") >>
  /\ pc' = "done"
  /\ UNCHANGED <<env, ret, exc>>

\* lines 77-79: except RuntimeError as e.
FitNotFound ==
  /\ pc = "fit_notfound"
  /\ out' = out \o
       << Line("Error: Optimal parameters were not found during fitting."),
          LineS("Details: {e}", exc.msg) >>
  /\ exc' = NoExc
  /\ pc' = "done"
  /\ UNCHANGED <<env, ret>>

\* lines 80-81: except Exception as e.
FitUnexpected ==
  /\ pc = "fit_unexpected"
  /\ out' = out \o << LineS("An unexpected error occurred: {e}", exc.msg) >>
  /\ exc' = NoExc
  /\ pc' = "done"
  /\ UNCHANGED <<env, ret>>

NextFit ==
  \/ FitGuesses
  \/ FitCurveFit
  \/ FitUnpack
  \/ FitPrint
  \/ FitNotFound
  \/ FitUnexpected

SpecFit == InitFit /\ [][NextFit]_vars

\* The lines that report a fitted parameter.
ParameterTexts ==
  { "1. Amplitude (Peak Intensity): {fitted_amplitude:.2f} +/- {err_amplitude:.2f}",
    "2. Center Position (Centroid): {fitted_center:.3f} mm +/- {err_center:.3f} mm",
    "3. Beam Width (Sigma):       {fitted_sigma:.3f} mm +/- {err_sigma:.3f} mm" }
ParameterLinesPrinted == \E i \in 1..Len(out) : out[i].text \in ParameterTexts

\* C10: when curve_fit raises RuntimeError the run prints "Error: Optimal
\* parameters were not found during fitting." and then the error's own
\* message, never a parameter line, and ends normally (no traceback, the
\* exception cleared); parameter lines are printed only on runs where
\* curve_fit has returned.
C10_FitFailure ==
  /\ ParameterLinesPrinted => env.fit = "returned"
  /\ env.fit = "RuntimeError" =>
       /\ pc \in {"fit_notfound", "done"}
       /\ pc = "fit_notfound" => (out = <<>> /\ exc.msg \in NotFoundDetails /\ ENABLED NextFit)
       /\ pc = "done" =>
            /\ exc = NoExc
            /\ Len(out) = 2
            /\ out[1] = Line("Error: Optimal parameters were not found during fitting.")
            /\ out[2].text = "Details: {e}"
            /\ out[2].str \in NotFoundDetails
       /\ env.fitted_amplitude = Unset
       /\ env.fitted_center = Unset
       /\ env.fitted_sigma = Unset

\* A run whose fit did not converge has ended with its two lines printed.
C10_Witness ==
  /\ pc = "done"
  /\ env.fit = "RuntimeError"
  /\ Len(out) = 2
  /\ out[2].str = "Optimal parameters not found: Number of calls to function has reached maxfev = 800."
====
